---- MODULE Spec2Model ----
(***************************************************************************)
(* Model of the speedtest measurement session (cumulus13/speedtest).       *)
(*                                                                         *)
(* The repository holds two method families on the Speedtest session:      *)
(*   - src/src/speedtest.rs : get_config, get_servers / fetch_servers,     *)
(*     get_closest_servers, get_best_server / measure_latency, download,   *)
(*     upload, get_results;                                                *)
(*   - src/src/latency.rs, download.rs, upload.rs : determine_best_server, *)
(*     test_download, test_upload, generate_upload_data_static.            *)
(* Both families act on the same session fields and are modelled on one    *)
(* session state.                                                          *)
(*                                                                         *)
(* Units: distances are whole kilometres, round-trip times whole           *)
(* milliseconds, stored latencies thousandths of a millisecond (the        *)
(* precision measure_latency rounds to).                                   *)
(***************************************************************************)
EXTENDS Integers, Sequences, FiniteSets, TLC

\* ------------------------------------------------------------------ bounds
MaxBatch == 2      \* <server> elements per endpoint answer (discovery)
MaxCatalog == 2    \* server records held by the catalog (discovery)
MaxCand == 2       \* servers a caller passes to a selection call
SessBatch == 1     \* <server> elements per endpoint answer (session)
SessCatalog == 1   \* server records held by the catalog (session)
MaxLen == 80       \* requested payload length
MaxReq == 2        \* requests one worker thread issues in a measurement
MaxUrl == 5        \* characters of a URL handed to build_url

\* --------------------------------------------------------------- constants
NumUrls == 4
DefaultClosest == 5
NumProbes == 3
KmPerDegree == 111

\* ----------------------------------------------------------------- options
None == [some |-> FALSE]

Some(x) == [some |-> TRUE, v |-> x]

Ok(op, x) == [op |-> op, ok |-> TRUE, v |-> x]

Err(op, e) == [op |-> op, ok |-> FALSE, err |-> e]

NoRet == [op |-> "none", ok |-> TRUE, v |-> 0]

Abs(x) == IF x < 0 THEN -x ELSE x

Min(a, b) == IF a <= b THEN a ELSE b

\* str::parse::<u32/usize/u64>() on the attribute texts the model uses
NumTable == [s \in {"0", "1", "2", "3", "5", "7", "8", "9", "99"} |->
               CASE s = "0" -> 0 [] s = "1" -> 1 [] s = "2" -> 2 [] s = "3" -> 3
                 [] s = "5" -> 5 [] s = "7" -> 7 [] s = "8" -> 8 [] s = "9" -> 9
                 [] s = "99" -> 99]

ParseNum(s) == IF s \in DOMAIN NumTable THEN Some(NumTable[s]) ELSE None

\* HashMap<String,String>::get
Attr(attrs, k) == IF k \in DOMAIN attrs THEN Some(attrs[k]) ELSE None

\* attrs.get(k).and_then(|s| s.parse().ok()).unwrap_or(dflt)
AttrNumOr(attrs, k, dflt) ==
  IF k \in DOMAIN attrs /\ ParseNum(attrs[k]).some THEN ParseNum(attrs[k]).v ELSE dflt

\* great-circle distance, restricted to points on one meridian or on the
\* equator, where it is KmPerDegree per degree of separation
Distance(lat1, lon1, lat2, lon2) == KmPerDegree * (Abs(lat1 - lat2) + Abs(lon1 - lon2))

RECURSIVE SeqSum(_)
SeqSum(s) == IF s = <<>> THEN 0 ELSE s[1] + SeqSum(Tail(s))

RECURSIVE Concat(_)
Concat(ss) == IF ss = <<>> THEN <<>> ELSE ss[1] \o Concat(Tail(ss))

\* sequences over S of length at most n
SeqsUpTo(S, n) == UNION {[1..k -> S] : k \in 0..n}

\* all orderings of a finite set, as sequences
Orders(S) == {f \in [1..Cardinality(S) -> S] : \A i, j \in 1..Cardinality(S) : i # j => f[i] # f[j]}

\* ------------------------------------------------------------------ state
VARIABLES
  config,     \* Option<Config>
  lat_lon,    \* client location, set by get_config
  servers,    \* catalog: HashMap<u32, Vec<Server>>
  closest,    \* candidate list: Vec<Server>
  best,       \* Option<Server>
  results,    \* SpeedtestResults of the latency.rs/download.rs/upload.rs family
  stack,      \* frames of the call in progress, innermost first; <<>> when idle
  ret,        \* value returned by the last call that returned
  disc,       \* get_servers: arguments, loop position, endpoints contacted
  limit,      \* get_closest_servers: requested limit
  sel,        \* selection: candidates, probe outcomes, ranking
  meas,       \* measurement: workers, stop flag, byte counter
  requests,   \* HTTP requests issued by the current (or last) top-level call
  gen         \* last call of a pure function: payload generator, build_url

vars == <<config, lat_lon, servers, closest, best, results, stack, ret, disc, limit, sel, meas, requests, gen>>

session == <<config, lat_lon, servers, closest, best, results>>

EmptyMap == [k \in {} |-> <<>>]

Idle == stack = <<>>

\* ------------------------------------------------------- get_config inputs
UpSizes == <<32768, 65536, 131072, 262144, 524288, 1048576, 7340032>>

DownSizes == <<350, 500, 750, 1000, 1500, 2000, 2500, 3000, 3500, 4000>>

\* the <client>, <server-config>, <download>, <upload> attributes of the
\* configuration document; ignoreids is given already split at ','
ClientAttrs == {[ip |-> "1.2.3.4", lat |-> "1", lon |-> "0"], [lat |-> "1", lon |-> "0"]}

IgnoreIdTokens == {<<"">>, <<"9", "x">>}

ConfigDocs == [client : ClientAttrs,
               ignoreids : IgnoreIdTokens,
               server_config : {[threadcount |-> "1"]},
               download : {[testlength |-> "1", threadsperurl |-> "1"]},
               upload : {[testlength |-> "1", threads |-> "2", maxchunkcount |-> "2", ratio |-> "7"]}]

\* .split(',').filter_map(|s| s.trim().parse().ok()).collect()
RECURSIVE ParseIdList(_)
ParseIdList(toks) ==
  IF toks = <<>> THEN <<>>
  ELSE (IF ParseNum(toks[1]).some THEN <<ParseNum(toks[1]).v>> ELSE <<>>) \o ParseIdList(Tail(toks))

SeqToSet(s) == {s[i] : i \in DOMAIN s}

CeilDiv(a, b) == (a + b - 1) \div b

\* the Config built by get_config from a configuration document
BuildConfig(doc) ==
  LET ratio == AttrNumOr(doc.upload, "ratio", 1)
      upload_max == AttrNumOr(doc.upload, "maxchunkcount", 4)
      upload_sizes == IF ratio > 0 /\ ratio <= Len(UpSizes)
                        THEN SubSeq(UpSizes, ratio, Len(UpSizes)) ELSE UpSizes
      size_count == Len(upload_sizes)
      upload_count == CeilDiv(upload_max, size_count)
  IN [ignore_servers |-> ParseIdList(doc.ignoreids),
      sizes |-> [upload |-> upload_sizes, download |-> DownSizes],
      counts |-> [upload |-> upload_count,
                  download |-> AttrNumOr(doc.download, "threadsperurl", 4)],
      threads |-> [upload |-> AttrNumOr(doc.upload, "threads", 8),
                   download |-> AttrNumOr(doc.server_config, "threadcount", 4) * 2],
      length |-> [upload |-> AttrNumOr(doc.upload, "testlength", 10),
                  download |-> AttrNumOr(doc.download, "testlength", 10)],
      upload_max |-> upload_count * size_count]

\* client.lat.parse().unwrap_or_else(|_| 0.0)
ParseCoord(o) == IF o.some /\ ParseNum(o.v).some THEN ParseNum(o.v).v ELSE 0

\* --------------------------------------------------------------- idle values
NoAnswer == [kind |-> "none"]

DiscIdle == [include |-> None, exclude |-> None, k |-> 0, contacted |-> <<>>, answer |-> NoAnswer]

SelIdle == [kind |-> "none", cands |-> <<>>, obs |-> <<>>, lats |-> <<>>, ranking |-> <<>>]

MeasIdle == [kind |-> "none"]

GenIdle == [kind |-> "none"]

ResultsDefault == [download |-> 0, upload |-> 0, ping |-> 0, server |-> 0,
                   bytes_sent |-> 0, bytes_received |-> 0]

\* ------------------------------------------------------------- get_config
ConfigResponses == {[kind |-> "http_error"], [kind |-> "xml_error"]}
                     \cup {[kind |-> "doc", doc |-> d] : d \in ConfigDocs}

\* get_config, the configuration endpoint answering one of `responses`
GetConfigFrom(responses) ==
  /\ Idle
  /\ IF config.some
       THEN /\ ret' = Ok("get_config", 0)
            /\ requests' = 0
            /\ UNCHANGED <<config, lat_lon>>
       ELSE \E resp \in responses :
              /\ requests' = 1
              /\ IF resp.kind = "http_error"
                   THEN /\ ret' = Err("get_config", "HttpError")
                        /\ UNCHANGED <<config, lat_lon>>
                   ELSE IF resp.kind = "xml_error"
                   THEN /\ ret' = Err("get_config", "ConfigRetrieval")
                        /\ UNCHANGED <<config, lat_lon>>
                   ELSE IF ~Attr(resp.doc.client, "ip").some \/ Attr(resp.doc.client, "ip").v = ""
                   THEN /\ ret' = Err("get_config", "ConfigRetrieval")
                        /\ UNCHANGED <<config, lat_lon>>
                   ELSE /\ lat_lon' = <<ParseCoord(Attr(resp.doc.client, "lat")),
                                        ParseCoord(Attr(resp.doc.client, "lon"))>>
                        /\ config' = Some(BuildConfig(resp.doc))
                        /\ ret' = Ok("get_config", 0)
  /\ disc' = DiscIdle /\ sel' = SelIdle /\ meas' = MeasIdle
  /\ UNCHANGED <<servers, closest, best, results, stack, limit, gen>>

GetConfig == GetConfigFrom(ConfigResponses)

\* configuration documents over the numeric attributes get_config reads: a
\* zero, a positive number, a text that is no number, or the attribute left out
PlanValues == {"0", "2", "x"}

AttrSets(keys, values) == UNION {[ks -> values] : ks \in SUBSET keys}

PlanDocs == [client : {[ip |-> "1.2.3.4", lat |-> "1", lon |-> "0"]},
             ignoreids : {<<"">>},
             server_config : AttrSets({"threadcount"}, PlanValues),
             download : AttrSets({"testlength", "threadsperurl"}, PlanValues),
             upload : AttrSets({"testlength", "threads", "maxchunkcount"}, PlanValues)
                        \cup {[ratio |-> "7", maxchunkcount |-> "0"], [ratio |-> "9"]}]

PlanResponses == {[kind |-> "doc", doc |-> d] : d \in PlanDocs}

\* -------------------------------------------------- get_servers, discovery
\* raw <server .../> elements an endpoint may send
RawPool == {[id |-> "5", lat |-> "2", lon |-> "0"],
            [id |-> "9", lat |-> "1", lon |-> "0"],
            [id |-> "x", lat |-> "1", lon |-> "0"],
            [id |-> "7", lat |-> "bad", lon |-> "0"]}

\* documents of at most n distinct <server> elements, in every order
Batches(n) == {r \in SeqsUpTo(RawPool, n) : \A i, j \in DOMAIN r : i # j => r[i] # r[j]}

\* an endpoint's answer: a transport failure, or a document whose <server>
\* elements are read in order, possibly up to an XML error
FetchResponses(max_batch) ==
  {[kind |-> "http_error"]}
    \cup [kind : {"doc"}, records : Batches(max_batch), xml_error : BOOLEAN]

\* the server_ids / exclude arguments (Option<&[u32]>), as sets
IncludeArgs == {None, Some({5, 9}), Some({99})}

ExcludeArgs == {None, Some({5})}

MapInsert(m, id, s) ==
  [k \in DOMAIN m \cup {id} |->
     IF k \in DOMAIN m THEN (IF k = id THEN Append(m[k], s) ELSE m[k]) ELSE <<s>>]

RECURSIVE SumOver(_, _)
SumOver(f, S) == IF S = {} THEN 0 ELSE LET x == CHOOSE y \in S : TRUE IN f[x] + SumOver(f, S \ {x})

\* number of server records held by a catalog
NumRecords(m) == SumOver([k \in DOMAIN m |-> Len(m[k])], DOMAIN m)

ProcessRecordIncludeWins(m, raw, cfg, loc, inc, exc) ==
  LET id == AttrNumOr(raw, "id", 0)
      lat == ParseCoord(Attr(raw, "lat"))
      lon == ParseCoord(Attr(raw, "lon"))
      server == [id |-> id, lat |-> lat, lon |-> lon,
                 d |-> Distance(loc[1], loc[2], lat, lon), latency |-> 0]
  IN IF id = 0 THEN m
     ELSE IF inc.some THEN (IF id \in inc.v THEN MapInsert(m, id, server) ELSE m)
     ELSE IF id \in SeqToSet(cfg.ignore_servers) THEN m
     ELSE IF exc.some /\ id \in exc.v THEN m
     ELSE MapInsert(m, id, server)

\* body of the Event::Empty arm for one <server> element: the catalog after it
ProcessRecord(m, raw, cfg, loc, inc, exc) ==
  LET id == AttrNumOr(raw, "id", 0)
      lat == ParseCoord(Attr(raw, "lat"))
      lon == ParseCoord(Attr(raw, "lon"))
      server == [id |-> id, lat |-> lat, lon |-> lon,
                 d |-> Distance(loc[1], loc[2], lat, lon), latency |-> 0]
  IN IF id = 0 THEN m
     ELSE IF inc.some /\ id \notin inc.v THEN m
     ELSE IF id \in SeqToSet(cfg.ignore_servers) THEN m
     ELSE IF exc.some /\ id \in exc.v THEN m
     ELSE MapInsert(m, id, server)

RECURSIVE ProcessRecords(_, _, _, _, _, _)
ProcessRecords(m, raws, cfg, loc, inc, exc) ==
  IF raws = <<>> THEN m
  ELSE ProcessRecords(ProcessRecord(m, raws[1], cfg, loc, inc, exc), Tail(raws), cfg, loc, inc, exc)

\* fetch_servers: result and catalog after reading one endpoint
FetchServers(m, resp, cfg, loc, inc, exc) ==
  IF resp.kind = "http_error" THEN [ok |-> FALSE, err |-> "HttpError", servers |-> m]
  ELSE IF ~cfg.some THEN [ok |-> FALSE, err |-> "ConfigRetrieval", servers |-> m]
  ELSE LET m2 == ProcessRecords(m, resp.records, cfg.v, loc, inc, exc)
       IN IF resp.xml_error THEN [ok |-> FALSE, err |-> "ServersRetrieval", servers |-> m2]
          ELSE [ok |-> TRUE, err |-> "", servers |-> m2]

DiscStart(inc, exc) == [include |-> inc, exclude |-> exc, k |-> 1, contacted |-> <<>>, answer |-> NoAnswer]

\* get_servers entry: clear the catalog and start the endpoint loop
GetServers(inc, exc) ==
  /\ Idle
  /\ servers' = EmptyMap
  /\ disc' = DiscStart(inc, exc)
  /\ stack' = <<"get_servers">>
  /\ requests' = 0
  /\ ret' = NoRet
  /\ sel' = SelIdle /\ meas' = MeasIdle
  /\ UNCHANGED <<config, lat_lon, closest, best, results, limit, gen>>

\* one iteration of `for url in urls`; disc.answer remembers what the
\* endpoint sent
GetServersFetch(max_batch, max_catalog) ==
  /\ stack # <<>> /\ Head(stack) = "get_servers"
  /\ disc.k >= 1 /\ disc.k <= NumUrls
  /\ \E resp \in FetchResponses(max_batch) :
       LET r == FetchServers(servers, resp, config, lat_lon, disc.include, disc.exclude)
       IN /\ NumRecords(r.servers) <= max_catalog
          /\ servers' = r.servers
          /\ disc' = [disc EXCEPT !.k = IF r.ok /\ DOMAIN r.servers # {} THEN NumUrls + 1 ELSE @ + 1,
                                  !.contacted = Append(@, disc.k),
                                  !.answer = resp]
  /\ requests' = requests + 1
  /\ UNCHANGED <<config, lat_lon, closest, best, results, stack, ret, limit, sel, meas, gen>>

GetServersResultAnyEmpty(inc, exc, m) ==
  IF DOMAIN m = {} THEN Err("get_servers", "NoMatchedServers") ELSE Ok("get_servers", 0)

GetServersResult(inc, exc, m) ==
  IF (inc.some \/ exc.some) /\ DOMAIN m = {} THEN Err("get_servers", "NoMatchedServers")
  ELSE Ok("get_servers", 0)

\* after the loop: the NoMatchedServers check and the return
GetServersReturn ==
  /\ stack # <<>> /\ Head(stack) = "get_servers"
  /\ disc.k > NumUrls
  /\ ret' = GetServersResult(disc.include, disc.exclude, servers)
  /\ stack' = Tail(stack)
  /\ disc' = [disc EXCEPT !.answer = NoAnswer]
  /\ UNCHANGED <<config, lat_lon, servers, closest, best, results, limit, sel, meas, requests, gen>>

\* ---------------------------------------------------- get_closest_servers
Limits == {1, DefaultClosest}

\* self.servers.values().flatten(): the keys in some hash order
Flattenings(m) == {Concat([i \in 1..Cardinality(DOMAIN m) |-> m[o[i]]]) : o \in Orders(DOMAIN m)}

\* position at which a stable sort places x behind the already sorted s
InsertByD(s, x) ==
  LET k == Cardinality({i \in DOMAIN s : s[i].d <= x.d})
  IN SubSeq(s, 1, k) \o <<x>> \o SubSeq(s, k + 1, Len(s))

SortByDUnsorted(s) == s

\* all_servers.sort_by(|a, b| a.d.partial_cmp(&b.d).unwrap()), a stable sort
RECURSIVE SortByD(_)
SortByD(s) == IF s = <<>> THEN <<>> ELSE InsertByD(SortByD(SubSeq(s, 1, Len(s) - 1)), s[Len(s)])

Take(s, n) == SubSeq(s, 1, Min(n, Len(s)))

\* the candidate lists get_closest_servers may store for a catalog
ClosestOf(m, lim) == {Take(SortByD(f), lim) : f \in Flattenings(m)}

CatalogNeverMissing(m) == FALSE

\* `if self.servers.is_empty()` at the head of get_closest_servers
CatalogMissing(m) == DOMAIN m = {}

\* get_closest_servers entry: lazy discovery, or sort and truncate at once
GetClosestServers(lim) ==
  /\ Idle
  /\ limit' = lim
  /\ requests' = 0
  /\ sel' = SelIdle /\ meas' = MeasIdle
  /\ IF CatalogMissing(servers)
       THEN /\ servers' = EmptyMap
            /\ disc' = DiscStart(None, None)
            /\ stack' = <<"get_servers", "get_closest_servers">>
            /\ ret' = NoRet
            /\ UNCHANGED closest
       ELSE /\ closest' \in ClosestOf(servers, lim)
            /\ ret' = Ok("get_closest_servers", 0)
            /\ disc' = DiscIdle
            /\ UNCHANGED <<servers, stack>>
  /\ UNCHANGED <<config, lat_lon, best, results, gen>>

\* get_closest_servers after the lazy get_servers(None, None)? returned
GetClosestServersResume ==
  /\ stack # <<>> /\ Head(stack) = "get_closest_servers"
  /\ stack' = Tail(stack)
  /\ IF ~ret.ok
       THEN /\ ret' = [ret EXCEPT !.op = "get_closest_servers"]
            /\ UNCHANGED closest
       ELSE /\ closest' \in ClosestOf(servers, limit)
            /\ ret' = Ok("get_closest_servers", 0)
  /\ UNCHANGED <<config, lat_lon, servers, best, results, disc, limit, sel, meas, requests, gen>>

\* ------------------------------------- get_best_server, determine_best_server
Sentinel == 3600

MsPerSec == 1000

\* round-trip times a working probe may measure, in ms
Rtts == {10, 3600}

\* answers to GET <base>/latency.txt
ProbeAnswers(rtts) == {[kind |-> "err", body |-> "", rtt |-> 0],
                       [kind |-> "ok", body |-> "busy", rtt |-> 10]}
                        \cup [kind : {"ok"}, body : {"test=test\n"}, rtt : rtts]

\* str::trim on the bodies the model uses
Trim(b) == IF b = "test=test\n" THEN "test=test" ELSE b

ProbeOk(ans) == ans.kind = "ok" /\ Trim(ans.body) = "test=test"

\* value measure_latency pushes for one probe, in ms
LatencyPushed(ans) == IF ProbeOk(ans) THEN ans.rtt ELSE Sentinel

\* value determine_best_server pushes for one probe (seconds in the code, kept in ms)
CumulativePushed(ans) == IF ProbeOk(ans) THEN ans.rtt ELSE Sentinel * MsPerSec

\* servers a caller may pass explicitly
CandPool == {[id |-> 5, lat |-> 2, lon |-> 0, d |-> 111, latency |-> 0],
             [id |-> 9, lat |-> 1, lon |-> 0, d |-> 0, latency |-> 0]}

CandArgs(max_cand) == {None} \cup {Some(c) : c \in SeqsUpTo(CandPool, max_cand)}

\* measure_latency's verdict on the three values pushed for one server:
\* Err when all are >= 3600, else the mean rounded to 3 decimals
MeasureLatency(latencies) ==
  IF \A i \in DOMAIN latencies : latencies[i] >= Sentinel THEN None
  ELSE Some((2 * 1000 * SeqSum(latencies) + Len(latencies)) \div (2 * Len(latencies)))

\* determine_best_server's average: (sum / 6.0) * 1000.0
CumulativeAvg(cumulative) ==
  (SeqSum(cumulative) \div 6) * 1000 + ((SeqSum(cumulative) % 6) * 1000) \div 6

\* results of the par_iter().filter_map(): rank entries in candidate order
RECURSIVE RankingA(_, _)
RankingA(lats, i) ==
  IF i > Len(lats) THEN <<>>
  ELSE (IF MeasureLatency(lats[i]).some
          THEN <<[latency |-> MeasureLatency(lats[i]).v, idx |-> i]>> ELSE <<>>)
       \o RankingA(lats, i + 1)

\* position at which a stable sort places x behind the already sorted s
InsertByLatency(s, x) ==
  LET k == Cardinality({i \in DOMAIN s : s[i].latency <= x.latency})
  IN SubSeq(s, 1, k) \o <<x>> \o SubSeq(s, k + 1, Len(s))

RECURSIVE SortByLatency(_)
SortByLatency(s) ==
  IF s = <<>> THEN <<>> ELSE InsertByLatency(SortByLatency(SubSeq(s, 1, Len(s) - 1)), s[Len(s)])

\* results of determine_best_server's loop, after results.sort_by
RankingB(lats) == SortByLatency([i \in DOMAIN lats |-> [latency |-> CumulativeAvg(lats[i]), idx |-> i]])

MinByLast(r) == r[CHOOSE i \in DOMAIN r :
                    /\ \A j \in DOMAIN r : r[i].latency <= r[j].latency
                    /\ \A j \in (i + 1)..Len(r) : r[j].latency > r[i].latency]

\* Iterator::min_by: the first of the minimal elements
MinBy(r) == r[CHOOSE i \in DOMAIN r :
                /\ \A j \in DOMAIN r : r[i].latency <= r[j].latency
                /\ \A j \in 1..(i - 1) : r[j].latency > r[i].latency]

StartProbing(kind, cands) ==
  /\ sel' = [kind |-> kind, cands |-> cands,
             obs |-> [i \in DOMAIN cands |-> <<>>],
             lats |-> [i \in DOMAIN cands |-> <<>>],
             ranking |-> <<>>]
  /\ stack' = <<"probing">>

\* entry of get_best_server (kind "A") and determine_best_server (kind "B"):
\* pick the candidates, lazily computing the closest 5
SelectEntry(kind, op, arg) ==
  /\ Idle
  /\ requests' = 0
  /\ meas' = MeasIdle
  /\ IF arg.some
       THEN /\ IF kind = "B" /\ arg.v = <<>>
                 THEN /\ ret' = Err(op, "BestServerFailure")
                      /\ sel' = SelIdle
                      /\ UNCHANGED stack
                 ELSE /\ StartProbing(kind, arg.v)
                      /\ ret' = NoRet
            /\ disc' = DiscIdle
            /\ UNCHANGED <<servers, closest, limit>>
       ELSE IF closest # <<>>
       THEN /\ StartProbing(kind, closest)
            /\ ret' = NoRet
            /\ disc' = DiscIdle
            /\ UNCHANGED <<servers, closest, limit>>
       ELSE IF CatalogMissing(servers)
       THEN /\ servers' = EmptyMap
            /\ disc' = DiscStart(None, None)
            /\ limit' = DefaultClosest
            /\ stack' = <<"get_servers", "get_closest_servers", op>>
            /\ ret' = NoRet
            /\ sel' = SelIdle
            /\ UNCHANGED closest
       ELSE /\ closest' \in ClosestOf(servers, DefaultClosest)
            /\ IF kind = "B" /\ closest' = <<>>
                 THEN /\ ret' = Err(op, "BestServerFailure")
                      /\ sel' = SelIdle
                      /\ UNCHANGED stack
                 ELSE /\ StartProbing(kind, closest')
                      /\ ret' = NoRet
            /\ disc' = DiscIdle
            /\ UNCHANGED <<servers, limit>>
  /\ UNCHANGED <<config, lat_lon, best, results, gen>>

GetBestServer(arg) == SelectEntry("A", "get_best_server", arg)

DetermineBestServer(arg) == SelectEntry("B", "determine_best_server", arg)

\* selection after the lazy get_closest_servers(5)? returned
SelectResume ==
  /\ stack # <<>> /\ Head(stack) \in {"get_best_server", "determine_best_server"}
  /\ LET kind == IF Head(stack) = "get_best_server" THEN "A" ELSE "B"
     IN IF ~ret.ok
          THEN /\ ret' = [ret EXCEPT !.op = Head(stack)]
               /\ stack' = <<>>
               /\ UNCHANGED sel
          ELSE IF kind = "B" /\ closest = <<>>
          THEN /\ ret' = Err(Head(stack), "BestServerFailure")
               /\ stack' = <<>>
               /\ UNCHANGED sel
          ELSE /\ StartProbing(kind, closest)
               /\ ret' = NoRet
  /\ UNCHANGED <<config, lat_lon, servers, closest, best, results, disc, limit, meas, requests, gen>>

\* one latency probe of candidate i; get_best_server probes the candidates in
\* parallel, determine_best_server one candidate after the other
Probe(i, rtts) ==
  /\ stack = <<"probing">>
  /\ i \in DOMAIN sel.cands
  /\ Len(sel.lats[i]) < NumProbes
  /\ sel.kind = "B" => \A j \in 1..(i - 1) : Len(sel.lats[j]) = NumProbes
  /\ \E ans \in ProbeAnswers(rtts) :
       sel' = [sel EXCEPT !.obs[i] = Append(@, [ok |-> ProbeOk(ans),
                                                  rtt |-> IF ProbeOk(ans) THEN ans.rtt ELSE 0]),
                          !.lats[i] = Append(@, IF sel.kind = "A" THEN LatencyPushed(ans)
                                                ELSE CumulativePushed(ans))]
  /\ requests' = requests + 1
  /\ UNCHANGED <<config, lat_lon, servers, closest, best, results, stack, ret, disc, limit, meas, gen>>

AllProbed == \A i \in DOMAIN sel.cands : Len(sel.lats[i]) = NumProbes

SelectedBestOrNone(bst, cands, r) ==
  IF r = <<>> THEN None
  ELSE Some([cands[MinBy(r).idx] EXCEPT !.latency = MinBy(r).latency])

\* self.best after get_best_server: the `?` on an empty ranking returns
\* before the assignment
SelectedBest(bst, cands, r) ==
  IF r = <<>> THEN bst
  ELSE Some([cands[MinBy(r).idx] EXCEPT !.latency = MinBy(r).latency])

\* get_best_server after the parallel probing: min_by, store best
GetBestServerFinish ==
  /\ stack = <<"probing">> /\ sel.kind = "A"
  /\ AllProbed
  /\ LET r == RankingA(sel.lats, 1)
     IN /\ sel' = [sel EXCEPT !.ranking = r]
        /\ best' = SelectedBest(best, sel.cands, r)
        /\ ret' = IF r = <<>> THEN Err("get_best_server", "BestServerFailure")
                  ELSE Ok("get_best_server", MinBy(r).idx)
  /\ stack' = <<>>
  /\ UNCHANGED <<config, lat_lon, servers, closest, results, disc, limit, meas, requests, gen>>

\* determine_best_server after its loop: sort, take the first, store ping,
\* result server and best
DetermineBestServerFinish ==
  /\ stack = <<"probing">> /\ sel.kind = "B"
  /\ AllProbed
  /\ LET r == RankingB(sel.lats)
     IN /\ sel' = [sel EXCEPT !.ranking = r]
        /\ IF r = <<>>
             THEN /\ ret' = Err("determine_best_server", "BestServerFailure")
                  /\ UNCHANGED <<best, results>>
             ELSE /\ best' = Some([sel.cands[r[1].idx] EXCEPT !.latency = r[1].latency])
                  /\ results' = [results EXCEPT !.ping = r[1].latency,
                                                !.server = sel.cands[r[1].idx].id]
                  /\ ret' = Ok("determine_best_server", r[1].idx)
  /\ stack' = <<>>
  /\ UNCHANGED <<config, lat_lon, servers, closest, disc, limit, meas, requests, gen>>

\* -------------------------------------------------- upload payload generators
Prefix == <<"c", "o", "n", "t", "e", "n", "t", "1", "=">>

AlphabetLen == 36

\* (length as f64 / 36.0).round()
Multiplier(length) == (2 * length + AlphabetLen) \div (2 * AlphabetLen)

\* A payload is its leading field-marker bytes and the number of alphabet
\* filler bytes that follow them.
PayloadLen(p) == Len(p.head) + p.filler

\* the `while data.len() < length` loop of generate_upload_data_static, on the
\* length of data; an iteration that appends nothing repeats for ever
RECURSIVE FillLoop(_, _, _, _)
FillLoop(data_len, pattern_len, content_length, length) ==
  IF data_len >= length THEN [diverges |-> FALSE, data_len |-> data_len]
  ELSE LET remaining == content_length - (data_len - Len(Prefix))
           chunk_size == Min(remaining, pattern_len)
       IN IF chunk_size = 0 THEN [diverges |-> TRUE, data_len |-> data_len]
          ELSE FillLoop(data_len + chunk_size, pattern_len, content_length, length)

\* generate_upload_data_static(length)
GenerateUploadDataStatic(length) ==
  LET content_length == IF length >= Len(Prefix) THEN length - Len(Prefix) ELSE 0
      filled == FillLoop(Len(Prefix), Multiplier(length), content_length, length)
  IN IF filled.diverges THEN [outcome |-> "diverges"]
     ELSE [outcome |-> "ok",
           head |-> SubSeq(Prefix, 1, Min(length, Len(Prefix))),
           filler |-> Min(length, filled.data_len) - Min(length, Len(Prefix))]

\* the closure of Speedtest::upload that builds upload_data from a size
GenerateUploadDataInline(size) ==
  LET content_len == AlphabetLen * Multiplier(size)
      cut == Min(size, content_len) - Len(Prefix)
  IN IF cut < 0 THEN [outcome |-> "panic"]
     ELSE [outcome |-> "ok", head |-> Prefix, filler |-> cut]

\* requested lengths tried on the generators
GenLengths == (0..MaxLen) \cup SeqToSet(UpSizes)

Generate(kind, length) ==
  /\ Idle
  /\ gen' = [kind |-> kind, length |-> length,
             out |-> IF kind = "static" THEN GenerateUploadDataStatic(length)
                     ELSE GenerateUploadDataInline(length)]
  /\ UNCHANGED <<config, lat_lon, servers, closest, best, results, stack, ret, disc, limit, sel, meas, requests>>

\* ------------------------------------------------------ HttpClient::build_url
\* strings are sequences of characters
SchemeRelative == <<":", "/", "/">>

Https == <<"h", "t", "t", "p", "s">>

Http == <<"h", "t", "t", "p">>

\* str::starts_with
StartsWith(s, p) == Len(s) >= Len(p) /\ SubSeq(s, 1, Len(p)) = p

\* str::contains(char)
Contains(s, c) == \E i \in DOMAIN s : s[i] = c

DelimiterAlwaysQuery(rest) == "?"

\* let delimiter = if rest.contains('?') { "&" } else { "?" }
Delimiter(rest) == IF Contains(rest, "?") THEN "&" ELSE "?"

\* build_url(&self, url); token is what cache_buster() returned
BuildUrl(secure, url, token) ==
  IF StartsWith(url, SchemeRelative)
    THEN LET scheme == IF secure THEN Https ELSE Http
             rest == SubSeq(url, 4, Len(url))
         IN scheme \o SchemeRelative \o rest \o <<Delimiter(rest)>> \o <<"x", "=">> \o token
    ELSE url

\* characters of the URLs tried on build_url
UrlChars == {":", "/", "?", "a"}

\* cache-buster tokens
Tokens == {<<"1">>, <<"2", "3">>}

BuildUrlCall(secure, url, token) ==
  /\ Idle
  /\ gen' = [kind |-> "build_url", secure |-> secure, url |-> url, token |-> token,
             out |-> BuildUrl(secure, url, token)]
  /\ UNCHANGED <<config, lat_lon, servers, closest, best, results, stack, ret, disc, limit, sel, meas, requests>>

\* ------------------------------------------------ download, upload (threads)
SpeedThreshold == 100000

RaisedUploadThreads == 8

\* byte lengths of the bodies a download request may return
BodyLens == {10000}

\* the `threads` argument of download / upload: absent, fewer and more threads
\* than the upload work list has payloads
ThreadArgs == {None, Some(1), Some(3)}

\* the `threads` argument tried on download
DownloadThreadArgs == {None, Some(1)}

\* one element per (size x repetition)
RECURSIVE Repeat(_, _)
Repeat(sizes, count) ==
  IF sizes = <<>> THEN <<>>
  ELSE [i \in 1..count |-> sizes[1]] \o Repeat(Tail(sizes), count)

FetchAddLost(counter, n) == n

\* AtomicU64::fetch_add: one indivisible read-modify-write of the counter
FetchAdd(counter, n) == counter + n

\* speed = (bytes as f64 / elapsed) * 8.0, elapsed in whole seconds
Speed(bytes, elapsed) == (bytes * 8) \div elapsed

PreconditionNoBestCheck(cfg, bst, cfg_err) == IF ~cfg.some THEN Some(cfg_err) ELSE None

\* the two `ok_or` checks that open every measurement
Precondition(cfg, bst, cfg_err) ==
  IF ~cfg.some THEN Some(cfg_err)
  ELSE IF ~bst.some THEN Some("MissingBestServer")
  ELSE None

\* entry of download / upload up to the spawning of the worker threads
MeasureThreads(dir, targ) ==
  LET op == dir
  IN /\ Idle
     /\ requests' = 0
     /\ disc' = DiscIdle /\ sel' = SelIdle
     /\ IF Precondition(config, best, "ConfigRetrieval").some
          THEN /\ ret' = Err(op, Precondition(config, best, "ConfigRetrieval").v)
               /\ meas' = MeasIdle
               /\ UNCHANGED stack
          ELSE LET cfg == config.v
                   work == IF dir = "download"
                             THEN [i \in 1..(Len(cfg.sizes.download) * cfg.counts.download) |-> 0]
                             ELSE [i \in DOMAIN Repeat(cfg.sizes.upload, cfg.counts.upload) |->
                                     PayloadLen(GenerateUploadDataInline(
                                       Repeat(cfg.sizes.upload, cfg.counts.upload)[i]))]
                   max_threads == IF targ.some THEN targ.v ELSE cfg.threads[dir]
               IN /\ meas' = [kind |-> dir, work |-> work, threads |-> max_threads,
                              length |-> cfg.length[dir],
                              w |-> [i \in 0..(max_threads - 1) |->
                                       [pc |-> "loop", idx |-> IF dir = "download" THEN 0 ELSE i,
                                        reqs |-> 0, used |-> {}, late |-> 0]],
                              stop |-> FALSE, total |-> 0, acked |-> <<>>, ackedlate |-> 0,
                              clock |-> 0]
                  /\ stack' = <<"measuring">>
                  /\ ret' = NoRet
     /\ UNCHANGED <<config, lat_lon, servers, closest, best, results, limit, gen>>

Download(targ) == MeasureThreads("download", targ)

Upload(targ) == MeasureThreads("upload", targ)

IsThreads == stack = <<"measuring">> /\ meas.kind \in {"download", "upload"}

\* time passes during a measurement
Tick ==
  /\ stack = <<"measuring">>
  /\ meas.clock <= meas.length
  /\ meas' = [meas EXCEPT !.clock = @ + 1]
  /\ UNCHANGED <<config, lat_lon, servers, closest, best, results, stack, ret, disc, limit, sel, requests, gen>>

WrapStartZero(kind, i) == 0

\* the index a worker goes back to at the end of the work list: a download
\* worker `url_index = 0`, upload worker i `data_index = i`
WrapStart(kind, i) == IF kind = "download" THEN 0 ELSE i

StopFlagLoadNever == FALSE

\* stop_flag.load(Ordering::Relaxed) in the `while` condition of a worker
StopFlagLoad == meas.stop

\* a worker's loop head: `while !stop_flag.load(Ordering::Relaxed)`
WorkerLoop(i) ==
  /\ IsThreads
  /\ i \in DOMAIN meas.w
  /\ meas.w[i].pc = "loop"
  /\ IF StopFlagLoad
       THEN meas' = [meas EXCEPT !.w[i].pc = "done"]
       ELSE /\ meas.w[i].reqs < MaxReq
            /\ meas' = [meas EXCEPT !.w[i].pc = "body"]
  /\ UNCHANGED <<config, lat_lon, servers, closest, best, results, stack, ret, disc, limit, sel, requests, gen>>

\* a worker's loop body up to the sending of the request: the wrap-around
\* and the indexing of the work list, which panics out of bounds; `late`
\* counts the requests the worker started with the stop flag already set
WorkerRequest(i) ==
  /\ IsThreads
  /\ i \in DOMAIN meas.w
  /\ meas.w[i].pc = "body"
  /\ LET idx == IF meas.w[i].idx >= Len(meas.work) THEN WrapStart(meas.kind, i) ELSE meas.w[i].idx
     IN IF idx >= Len(meas.work)
          THEN /\ meas' = [meas EXCEPT !.w[i].pc = "panicked", !.w[i].idx = idx]
               /\ UNCHANGED requests
          ELSE /\ meas' = [meas EXCEPT !.w[i].pc = "request", !.w[i].idx = idx,
                                       !.w[i].reqs = @ + 1,
                                       !.w[i].used = @ \cup {idx},
                                       !.w[i].late = @ + (IF meas.stop THEN 1 ELSE 0)]
               /\ requests' = requests + 1
  /\ UNCHANGED <<config, lat_lon, servers, closest, best, results, stack, ret, disc, limit, sel, gen>>

\* the request of worker i returns: count the bytes on Ok, advance the index;
\* `ackedlate` counts the bytes added with the stop flag already set
WorkerResponse(i) ==
  /\ IsThreads
  /\ i \in DOMAIN meas.w
  /\ meas.w[i].pc = "request"
  /\ \E bytes \in {-1} \cup (IF meas.kind = "download" THEN BodyLens
                               ELSE {meas.work[meas.w[i].idx + 1]}) :
       meas' = [meas EXCEPT !.total = IF bytes >= 0 THEN FetchAdd(@, bytes) ELSE @,
                            !.acked = IF bytes >= 0 THEN Append(@, bytes) ELSE @,
                            !.ackedlate = IF bytes >= 0 /\ meas.stop THEN @ + bytes ELSE @,
                            !.w[i].pc = "loop",
                            !.w[i].idx = @ + (IF meas.kind = "download" THEN 1 ELSE meas.threads)]
  /\ UNCHANGED <<config, lat_lon, servers, closest, best, results, stack, ret, disc, limit, sel, requests, gen>>

\* std::thread::sleep(test_duration) is over: stop_flag.store(true)
StopFlagStore ==
  /\ IsThreads
  /\ ~meas.stop
  /\ meas.clock >= meas.length /\ meas.clock >= 1
  /\ meas' = [meas EXCEPT !.stop = TRUE]
  /\ UNCHANGED <<config, lat_lon, servers, closest, best, results, stack, ret, disc, limit, sel, requests, gen>>

JoinAllNoWait == TRUE

\* `for handle in handles { let _ = handle.join(); }`: returns once every
\* worker thread has ended, by leaving its loop or by a panic
JoinAll == \A i \in DOMAIN meas.w : meas.w[i].pc \in {"done", "panicked"}

\* all handles joined: read elapsed and the counter, return the speed
MeasureThreadsFinish ==
  /\ IsThreads
  /\ meas.stop
  /\ JoinAll
  /\ ret' = Ok(meas.kind, Speed(meas.total, meas.clock))
  /\ stack' = <<>>
  /\ UNCHANGED <<config, lat_lon, servers, closest, best, results, disc, limit, sel, meas, requests, gen>>

\* ------------------------------------- test_download, test_upload (rayon pool)
RemoveAt(s, i) == SubSeq(s, 1, i - 1) \o SubSeq(s, i + 1, Len(s))

\* the pre_allocate argument of test_upload
PreAllocArgs == BOOLEAN

\* entry of test_download / test_upload up to pool.install
MeasurePool(op, pre_allocate) ==
  LET dir == IF op = "test_download" THEN "download" ELSE "upload"
  IN /\ Idle
     /\ requests' = 0
     /\ disc' = DiscIdle /\ sel' = SelIdle
     /\ IF Precondition(config, best, "ConfigError").some
          THEN /\ ret' = Err(op, Precondition(config, best, "ConfigError").v)
               /\ meas' = MeasIdle
               /\ UNCHANGED stack
          ELSE LET cfg == config.v
                   sizes == Repeat(cfg.sizes.upload, cfg.counts.upload)
                   request_count == Min(cfg.upload_max, Len(sizes))
                   payloads == [i \in 1..request_count |-> GenerateUploadDataStatic(sizes[i])]
                   work == IF dir = "download"
                             THEN [i \in 1..(Len(cfg.sizes.download) * cfg.counts.download) |-> 0]
                             ELSE [i \in 1..request_count |-> PayloadLen(payloads[i])]
               IN /\ dir = "upload" => \A i \in 1..request_count : payloads[i].outcome = "ok"
                  /\ meas' = [kind |-> op, todo |-> work, inflight |-> <<>>,
                              threads |-> cfg.threads[dir], length |-> cfg.length[dir],
                              pre_allocate |-> pre_allocate, total |-> 0, acked |-> <<>>, clock |-> 0]
                  /\ stack' = <<"measuring">>
                  /\ ret' = NoRet
     /\ UNCHANGED <<config, lat_lon, servers, closest, best, results, limit, gen>>

TestDownload == MeasurePool("test_download", FALSE)

TestUpload(pre_allocate) == MeasurePool("test_upload", pre_allocate)

IsPool == stack = <<"measuring">> /\ meas.kind \in {"test_download", "test_upload"}

\* a pool thread takes a work item: return at once when the time budget is
\* spent, else issue the item's request
PoolTake ==
  /\ IsPool
  /\ Len(meas.inflight) < meas.threads
  /\ \E k \in DOMAIN meas.todo :
       IF meas.clock > meas.length
         THEN /\ meas' = [meas EXCEPT !.todo = RemoveAt(@, k)]
              /\ UNCHANGED requests
         ELSE /\ meas' = [meas EXCEPT !.todo = RemoveAt(@, k),
                                      !.inflight = Append(@, meas.todo[k])]
              /\ requests' = requests + 1
  /\ UNCHANGED <<config, lat_lon, servers, closest, best, results, stack, ret, disc, limit, sel, gen>>

\* an item's request returns: count the bytes of a successful one
PoolResponse ==
  /\ IsPool
  /\ \E k \in DOMAIN meas.inflight :
       \E bytes \in {-1} \cup (IF meas.kind = "test_download" THEN BodyLens ELSE {meas.inflight[k]}) :
         meas' = [meas EXCEPT !.inflight = RemoveAt(@, k),
                              !.total = IF bytes >= 0 THEN FetchAdd(@, bytes) ELSE @,
                              !.acked = IF bytes >= 0 THEN Append(@, bytes) ELSE @]
  /\ UNCHANGED <<config, lat_lon, servers, closest, best, results, stack, ret, disc, limit, sel, requests, gen>>

\* after pool.install: record bytes and speed; test_download also adjusts the
\* upload thread count
MeasurePoolFinish ==
  /\ IsPool
  /\ meas.todo = <<>> /\ meas.inflight = <<>>
  /\ meas.clock >= 1
  /\ LET speed == Speed(meas.total, meas.clock)
     IN /\ ret' = Ok(meas.kind, speed)
        /\ IF meas.kind = "test_download"
             THEN /\ results' = [results EXCEPT !.bytes_received = meas.total, !.download = speed]
                  /\ config' = IF speed > SpeedThreshold
                                 THEN [config EXCEPT !.v.threads.upload = RaisedUploadThreads]
                                 ELSE config
             ELSE /\ results' = [results EXCEPT !.bytes_sent = meas.total, !.upload = speed]
                  /\ UNCHANGED config
  /\ stack' = <<>>
  /\ UNCHANGED <<lat_lon, servers, closest, best, disc, limit, sel, meas, requests, gen>>

\* ------------------------------------------------------------- get_results
\* SpeedtestResults::new(client, server) of models.rs
SpeedtestResultsNew(server) ==
  [download |-> 0, upload |-> 0, ping |-> 0, server |-> server.id,
   bytes_sent |-> 0, bytes_received |-> 0]

\* get_results(&self): None without configuration or best server, else a
\* result record built on the spot
GetResults ==
  /\ Idle
  /\ ret' = Ok("get_results", IF config.some /\ best.some THEN Some(SpeedtestResultsNew(best.v))
                               ELSE None)
  /\ UNCHANGED <<config, lat_lon, servers, closest, best, results, stack, disc, limit, sel, meas, requests, gen>>

\* ------------------------------------------------------------ specifications
Init ==
  /\ config = None
  /\ lat_lon = <<0, 0>>
  /\ servers = EmptyMap
  /\ closest = <<>>
  /\ best = None
  /\ results = ResultsDefault
  /\ stack = <<>>
  /\ ret = NoRet
  /\ disc = DiscIdle
  /\ limit = 0
  /\ sel = SelIdle
  /\ meas = MeasIdle
  /\ requests = 0
  /\ gen = GenIdle

\* discovery and ranking by distance: discovery calls, then closest calls
\* (a candidate list left over from an earlier catalog is a matter of the
\* whole session, not of this specification)
NextDisc ==
  \/ GetConfig
  \/ closest = <<>> /\ \E inc \in IncludeArgs, exc \in ExcludeArgs : GetServers(inc, exc)
  \/ GetServersFetch(MaxBatch, MaxCatalog)
  \/ GetServersReturn
  \/ \E lim \in Limits : GetClosestServers(lim)
  \/ GetClosestServersResume

SpecDisc == Init /\ [][NextDisc]_vars

\* the first successful selection of a session, among servers the caller passes
NextSel ==
  \/ ~best.some /\ \E arg \in CandArgs(MaxCand) \ {None} : GetBestServer(arg)
  \/ ~best.some /\ \E arg \in CandArgs(MaxCand) \ {None} : DetermineBestServer(arg)
  \/ \E i \in 1..MaxCand : Probe(i, Rtts)
  \/ GetBestServerFinish
  \/ DetermineBestServerFinish

SpecSel == Init /\ [][NextSel]_vars

\* round-trip times of the probes of a session
SessRtts == {10}

\* answers of the configuration endpoint in a session
SessResponses == {[kind |-> "http_error"]}
                   \cup {[kind |-> "doc", doc |-> d] : d \in {d \in ConfigDocs : d.ignoreids = <<"">> /\ "ip" \in DOMAIN d.client}}

\* a session in which the caller names no servers and asks for the catalog
\* itself only while there are no candidates: configuration, closest and
\* selection calls in any order, each of the last two running the stages
\* before it when their result is missing
NextLazy ==
  \/ GetConfigFrom(SessResponses)
  \/ closest = <<>> /\ GetServers(None, None)
  \/ GetServersFetch(SessBatch, SessCatalog)
  \/ GetServersReturn
  \/ GetClosestServers(DefaultClosest)
  \/ GetClosestServersResume
  \/ GetBestServer(None)
  \/ DetermineBestServer(None)
  \/ SelectResume
  \/ \E i \in 1..DefaultClosest : Probe(i, SessRtts)
  \/ GetBestServerFinish
  \/ DetermineBestServerFinish

SpecLazy == Init /\ [][NextLazy]_vars

\* the same session, the caller also rebuilding the catalog at will
NextSess ==
  \/ NextLazy
  \/ GetServers(None, None)

SpecSess == Init /\ [][NextSess]_vars

\* get_config over the documents the endpoint may send
NextCfg ==
  \/ GetConfigFrom(PlanResponses)

SpecCfg == Init /\ [][NextCfg]_vars

\* the payload generators on their own
NextGen ==
  \/ \E length \in GenLengths : Generate("static", length)
  \/ \E length \in GenLengths : Generate("inline", length)

SpecGen == Init /\ [][NextGen]_vars

\* build_url on its own, for clients created secure or not; the function
\* keeps no state, so one call per behaviour covers it
NextUrl ==
  \/ gen.kind = "none" /\ \E secure \in BOOLEAN, url \in SeqsUpTo(UrlChars, MaxUrl), token \in Tokens :
       BuildUrlCall(secure, url, token)

SpecUrl == Init /\ [][NextUrl]_vars

\* measurements, from the sessions a caller can have prepared: configuration
\* loaded or not (get_config), best server chosen or not (get_best_server on
\* servers the caller passes)
MeasDocs == [client : {[ip |-> "1.2.3.4", lat |-> "1", lon |-> "0"]},
             ignoreids : {<<"">>},
             server_config : {[threadcount |-> "1"]},
             download : {[testlength |-> "1", threadsperurl |-> "1"],
                         [testlength |-> "2", threadsperurl |-> "1"]},
             upload : {[testlength |-> "1", threads |-> "2", maxchunkcount |-> "2", ratio |-> "7"]}]

MeasConfigs == {None} \cup {Some(BuildConfig(d)) : d \in MeasDocs}

MeasBests == {None, Some([id |-> 5, lat |-> 2, lon |-> 0, d |-> 111, latency |-> 10000])}

InitMeas ==
  /\ config \in MeasConfigs
  /\ lat_lon = IF config.some THEN <<1, 0>> ELSE <<0, 0>>
  /\ servers = EmptyMap
  /\ closest = <<>>
  /\ best \in MeasBests
  /\ results = ResultsDefault
  /\ stack = <<>>
  /\ ret = NoRet
  /\ disc = DiscIdle
  /\ limit = 0
  /\ sel = SelIdle
  /\ meas = MeasIdle
  /\ requests = 0
  /\ gen = GenIdle

\* the first measurement a prepared session runs to its end, by either family
NextMeas ==
  \/ meas.kind = "none" /\ \E targ \in DownloadThreadArgs : Download(targ)
  \/ meas.kind = "none" /\ \E targ \in ThreadArgs : Upload(targ)
  \/ \E i \in 0..(RaisedUploadThreads - 1) : WorkerLoop(i)
  \/ \E i \in 0..(RaisedUploadThreads - 1) : WorkerRequest(i)
  \/ \E i \in 0..(RaisedUploadThreads - 1) : WorkerResponse(i)
  \/ Tick
  \/ StopFlagStore
  \/ MeasureThreadsFinish
  \/ meas.kind = "none" /\ TestDownload
  \/ meas.kind = "none" /\ \E pre \in PreAllocArgs : TestUpload(pre)
  \/ PoolTake
  \/ PoolResponse
  \/ MeasurePoolFinish

SpecMeas == InitMeas /\ [][NextMeas]_vars

\* a prepared session that still selects its best server, among servers the
\* caller passes, and then measures
NextStages ==
  \/ ~best.some /\ \E arg \in CandArgs(SessCatalog) \ {None} : GetBestServer(arg)
  \/ \E i \in 1..SessCatalog : Probe(i, SessRtts)
  \/ GetBestServerFinish
  \/ NextMeas

SpecStages == InitMeas /\ [][NextStages]_vars

\* download measurements by test_download, from sessions whose configuration
\* document sets the upload thread count below or above the raised value
AdaptDocs == [client : {[ip |-> "1.2.3.4", lat |-> "1", lon |-> "0"]},
              ignoreids : {<<"">>},
              server_config : {[threadcount |-> "1"]},
              download : {[testlength |-> "1", threadsperurl |-> "1"]},
              upload : {[testlength |-> "1", threads |-> "2", maxchunkcount |-> "2", ratio |-> "7"],
                        [testlength |-> "1", threads |-> "9", maxchunkcount |-> "2", ratio |-> "7"]}]

InitAdapt ==
  /\ config \in {None} \cup {Some(BuildConfig(d)) : d \in AdaptDocs}
  /\ lat_lon = IF config.some THEN <<1, 0>> ELSE <<0, 0>>
  /\ servers = EmptyMap
  /\ closest = <<>>
  /\ best \in MeasBests
  /\ results = ResultsDefault
  /\ stack = <<>>
  /\ ret = NoRet
  /\ disc = DiscIdle
  /\ limit = 0
  /\ sel = SelIdle
  /\ meas = MeasIdle
  /\ requests = 0
  /\ gen = GenIdle

NextAdapt ==
  \/ meas.kind = "none" /\ TestDownload
  \/ PoolTake
  \/ PoolResponse
  \/ Tick
  \/ MeasurePoolFinish

SpecAdapt == InitAdapt /\ [][NextAdapt]_vars

\* measurements followed by queries of the result
NextRes ==
  \/ NextMeas
  \/ GetResults

SpecRes == InitMeas /\ [][NextRes]_vars

\* the same, with the scheduling the threads get: a spawned worker keeps
\* running, a request in flight returns, and handle.join() returns once the
\* workers have ended
SpecMeasLive ==
  /\ SpecMeas
  /\ \A i \in 0..(RaisedUploadThreads - 1) :
       WF_vars(WorkerLoop(i)) /\ WF_vars(WorkerRequest(i)) /\ WF_vars(WorkerResponse(i))
  /\ WF_vars(MeasureThreadsFinish)

\* ------------------------------------------------------------------ claims
MeasOps == {"download", "upload", "test_download", "test_upload"}

ConfigErrorOf(op) == IF op \in {"download", "upload"} THEN "ConfigRetrieval" ELSE "ConfigError"

\* C1: a measurement called without a loaded configuration returns the
\* configuration error, and one called with a configuration but without a best
\* server returns MissingBestServer; in both cases the call returns at once,
\* launches no worker, issues no request and leaves config, catalog, candidate
\* list, best and results as they were.
C1_PreconditionFailsFast ==
  [][(Idle /\ (~config.some \/ ~best.some)) =>
       /\ Idle'
       /\ ret'.op \in MeasOps
       /\ ~ret'.ok
       /\ ret'.err = (IF ~config.some THEN ConfigErrorOf(ret'.op) ELSE "MissingBestServer")
       /\ meas' = MeasIdle
       /\ requests' = 0
       /\ session' = session]_vars

C1_Witness ==
  /\ Idle /\ config.some /\ ~best.some
  /\ ret = Err("download", "MissingBestServer")
  /\ meas = MeasIdle /\ requests = 0

SelOps == {"get_best_server", "determine_best_server"}

\* a selection call has probed its candidates and returned
SelReturned == Idle /\ ret.op \in SelOps /\ sel.kind # "none"

AllFailed(i) == \A p \in DOMAIN sel.obs[i] : ~sel.obs[i][p].ok

RankedIdx == {sel.ranking[k].idx : k \in DOMAIN sel.ranking}

\* C2: a candidate whose 3 probes all failed is not in the ranking and is never
\* returned as best; when every candidate is excluded this way the call fails
\* with BestServerFailure.
C2_AllFailedExcluded ==
  SelReturned =>
    /\ \A i \in DOMAIN sel.cands :
         AllFailed(i) => (i \notin RankedIdx /\ (ret.ok => ret.v # i))
    /\ (\A i \in DOMAIN sel.cands : AllFailed(i)) => (~ret.ok /\ ret.err = "BestServerFailure")

\* sum of the three probe outcomes as the claim counts them, in ms: the
\* round-trip time of a working probe, 3,600,000 ms for a failed one
RECURSIVE ClaimedSum(_)
ClaimedSum(obs) ==
  IF obs = <<>> THEN 0
  ELSE (IF obs[1].ok THEN obs[1].rtt ELSE Sentinel * MsPerSec) + ClaimedSum(Tail(obs))

\* C3: the latency of every ranked candidate is the sum of its 3 probe
\* outcomes divided by 3 (to the millisecond), a failed probe counting
\* 3,600,000 ms.
C3_MeanOfThreeWithPenalty ==
  SelReturned =>
    \A k \in DOMAIN sel.ranking :
      Abs(sel.ranking[k].latency \div 1000 - ClaimedSum(sel.obs[sel.ranking[k].idx]) \div NumProbes) <= 1

\* C4: when the ranking is not empty the call succeeds and returns a ranked
\* candidate whose latency is minimal in the ranking and, among the candidates
\* of that latency, the first in the order of the input list.
C4_MinLatencyFirstInOrder ==
  SelReturned =>
    /\ (sel.ranking # <<>>) <=> ret.ok
    /\ ret.ok =>
         /\ ret.v \in RankedIdx
         /\ best = Some([sel.cands[ret.v] EXCEPT !.latency = best.v.latency])
         /\ \E k \in DOMAIN sel.ranking :
              sel.ranking[k].idx = ret.v /\ sel.ranking[k].latency = best.v.latency
         /\ \A k \in DOMAIN sel.ranking :
              /\ best.v.latency <= sel.ranking[k].latency
              /\ sel.ranking[k].latency = best.v.latency => ret.v <= sel.ranking[k].idx

C4_Witness ==
  /\ SelReturned /\ ret.ok /\ ret.v = 1
  /\ Len(sel.ranking) = 2
  /\ sel.ranking[1].latency = sel.ranking[2].latency

\* number of occurrences of x in the sequence s
CountIn(s, x) == Cardinality({i \in DOMAIN s : s[i] = x})

\* C5: get_closest_servers(limit) returns servers of the catalog, sorted
\* non-decreasing by distance, min(limit, number of catalog records) of them,
\* and no record left out is strictly closer than a returned one.
C5_ClosestSortedTruncated ==
  (Idle /\ ret.op = "get_closest_servers" /\ ret.ok) =>
    /\ \A i \in 1..(Len(closest) - 1) : closest[i].d <= closest[i + 1].d
    /\ Len(closest) = Min(limit, NumRecords(servers))
    /\ \A i \in DOMAIN closest :
         /\ closest[i].id \in DOMAIN servers
         /\ CountIn(closest, closest[i]) <= CountIn(servers[closest[i].id], closest[i])
    /\ \A id \in DOMAIN servers : \A j \in DOMAIN servers[id] :
         CountIn(closest, servers[id][j]) < CountIn(servers[id], servers[id][j])
           => \A i \in DOMAIN closest : closest[i].d <= servers[id][j].d

C5_Witness ==
  /\ Idle /\ ret.op = "get_closest_servers" /\ ret.ok
  /\ limit = 1 /\ DOMAIN servers = {5, 9}
  /\ Len(closest) = 1 /\ closest[1].id = 9

\* C6: get_servers fails exactly when an include or an exclude list was
\* supplied and the catalog it built is empty, and then with NoMatchedServers.
C6_NoMatchedServersIff ==
  ret.op = "get_servers" =>
    /\ ~ret.ok <=> ((disc.include.some \/ disc.exclude.some) /\ DOMAIN servers = {})
    /\ ~ret.ok => ret.err = "NoMatchedServers"

C6_Witness ==
  /\ ret.op = "get_servers" /\ ret.ok
  /\ disc.include = Some({5, 9}) /\ DOMAIN servers = {5}

\* C7: every server of the catalog has an id outside the configuration's
\* ignore list and, for the discovery call that built the catalog, outside the
\* exclude list and inside the include list when one was supplied.
C7_CatalogFiltered ==
  \A id \in DOMAIN servers :
    /\ config.some /\ id \notin SeqToSet(config.v.ignore_servers)
    /\ \A j \in DOMAIN servers[id] : servers[id][j].id = id
    /\ disc.k > 0 =>
         /\ disc.exclude.some => id \notin disc.exclude.v
         /\ disc.include.some => id \in disc.include.v

RawIds(records) == {AttrNumOr(records[p], "id", 0) : p \in DOMAIN records}

C7_Witness ==
  /\ disc.k > 0 /\ disc.answer.kind = "doc"
  /\ disc.include.some /\ 9 \in disc.include.v
  /\ config.some /\ 9 \in SeqToSet(config.v.ignore_servers)
  /\ {5, 9} \subseteq RawIds(disc.answer.records)
  /\ DOMAIN servers = {5}

Malformed(raw) ==
  \/ ~Attr(raw, "id").some \/ ~ParseNum(raw.id).some
  \/ ~Attr(raw, "lat").some \/ ~ParseNum(raw.lat).some
  \/ ~Attr(raw, "lon").some \/ ~ParseNum(raw.lon).some

PassesFilters(id) ==
  /\ id # 0
  /\ id \notin SeqToSet(config.v.ignore_servers)
  /\ disc.exclude.some => id \notin disc.exclude.v
  /\ disc.include.some => id \in disc.include.v

\* C8: of the <server> elements an endpoint sent, one with a malformed id,
\* latitude or longitude is not in the catalog, and a well-formed one that
\* passes the filters is.
C8_MalformedSkipped ==
  (disc.k > 0 /\ disc.answer.kind = "doc" /\ config.some) =>
    \A p \in DOMAIN disc.answer.records :
      LET raw == disc.answer.records[p]
      IN IF Malformed(raw) THEN AttrNumOr(raw, "id", 0) \notin DOMAIN servers
         ELSE PassesFilters(AttrNumOr(raw, "id", 0)) => AttrNumOr(raw, "id", 0) \in DOMAIN servers

\* C9: get_servers called before the configuration is loaded returns the
\* configuration error after contacting at most one endpoint.
C9_ConfigErrorReturned ==
  (ret.op = "get_servers" /\ ~config.some) =>
    /\ ~ret.ok /\ ret.err = "ConfigRetrieval"
    /\ Len(disc.contacted) <= 1

\* C10: for each size of the upload work list and either generator, the payload
\* is built, has exactly the requested length and begins with "content1=".
C10_PayloadExactLength ==
  (gen.kind # "none" /\ gen.length \in SeqToSet(UpSizes)) =>
    /\ gen.out.outcome = "ok"
    /\ PayloadLen(gen.out) = gen.length
    /\ gen.out.head = Prefix

\* a measurement call has run its workers and returned the speed
MeasReturned == Idle /\ ret.op \in MeasOps /\ ret.ok /\ meas.kind = ret.op

\* C11: at every moment of a measurement, and so when the counter is read
\* after the workers have joined, the shared byte counter is the sum of the
\* byte lengths of the requests that returned successfully, whatever the
\* interleaving of the workers; a request that failed added nothing and was
\* not issued again, so no more requests succeeded than were issued.
C11_CounterIsSumOfSucceeded ==
  meas.kind # "none" =>
    /\ meas.total = SeqSum(meas.acked)
    /\ Len(meas.acked) <= requests

C11_Witness ==
  /\ MeasReturned /\ ret.op = "download"
  /\ meas.threads = 2 /\ requests = 2
  /\ Len(meas.acked) = 2
  /\ meas.total = meas.acked[1] + meas.acked[2]

\* C12: once the stop flag of a download or upload is set, every worker
\* leaves its loop and the call returns.
C12_WorkersTerminate == (IsThreads /\ meas.stop) ~> (Idle /\ ret.op = meas.kind)

C12_Witness ==
  /\ MeasReturned /\ ret.op \in {"download", "upload"}
  /\ meas.stop
  /\ \A i \in DOMAIN meas.w : meas.w[i].pc = "done"
  /\ \E i \in DOMAIN meas.w : meas.w[i].reqs > 0

\* every worker of the running measurement has ended
Joined ==
  IF meas.kind \in {"download", "upload"}
    THEN \A i \in DOMAIN meas.w : meas.w[i].pc \in {"done", "panicked"}
    ELSE meas.todo = <<>> /\ meas.inflight = <<>>

\* C13: a measurement returns only after its time budget has elapsed, its
\* stop flag (where it has one) has been set and all its workers have ended; the speed it returns
\* is (byte counter / elapsed seconds) * 8 for the counter as read at that
\* moment, and the counter of a finished measurement never changes again.
C13_StopJoinReadOrder ==
  [][/\ (stack = <<"measuring">> /\ stack' = <<>>) =>
          /\ meas.clock >= meas.length
          /\ "stop" \in DOMAIN meas => meas.stop
          /\ Joined
          /\ ret' = Ok(meas.kind, Speed(meas.total, meas.clock))
          /\ meas' = meas
     /\ (Idle /\ Idle' /\ meas.kind # "none") => (meas' = meas \/ meas' = MeasIdle)]_vars

DownOps == {"download", "test_download"}

\* the result record r carries the byte count and the speed of the finished run
CarriesRun(r, bytes, speed) ==
  IF meas.kind \in DownOps
    THEN r.bytes_received = bytes /\ r.download = speed
    ELSE r.bytes_sent = bytes /\ r.upload = speed

\* C14: when a measurement has returned its speed, the session's result holds
\* the final byte counter and that speed in the fields of its direction, and
\* a get_results call made afterwards returns a result carrying them.
C14_ResultsRecorded ==
  /\ MeasReturned => CarriesRun(results, meas.total, ret.v)
  /\ (Idle /\ ret.op = "get_results" /\ meas.kind \in MeasOps) =>
       /\ ret.v.some
       /\ CarriesRun(ret.v.v, meas.total, Speed(meas.total, meas.clock))

\* C17: every stored configuration has download and upload thread counts of
\* at least 1, download and upload time budgets above 0, and non-empty
\* download and upload work lists (sizes x repetition count).
C17_TestPlanInvariant ==
  config.some =>
    /\ config.v.threads.download >= 1 /\ config.v.threads.upload >= 1
    /\ config.v.length.download > 0 /\ config.v.length.upload > 0
    /\ Len(config.v.sizes.download) * config.v.counts.download >= 1
    /\ Len(config.v.sizes.upload) * config.v.counts.upload >= 1

\* C15: a session starts without a best server, and the stored best server
\* changes only in the step in which a selection call returns successfully,
\* to a server that is present; so a selection call that fails, at whatever
\* stage, leaves it as it was.
C15_BestOnlyBySelection ==
  /\ ~best.some
  /\ [][best' # best => (stack' = <<>> /\ ret'.op \in SelOps /\ ret'.ok /\ best'.some)]_vars

C15_Witness ==
  /\ Idle /\ ret.op = "get_best_server" /\ ~ret.ok
  /\ sel.kind = "A" /\ sel.cands # <<>>
  /\ best.some

\* outermost frame of the call in progress
Outermost(st) == st[Len(st)]

\* C16: a selection call without explicit candidates that finds the candidate
\* list empty computes the closest 5 servers before it probes, and a closest
\* computation that finds the catalog empty runs an unfiltered discovery
\* first; the nested calls return innermost first (discovery, then closest,
\* then selection), no probe is sent before the closest list is there, and
\* the servers probed are that list.
C16_LazyChainOrder ==
  [][/\ (Idle /\ ~Idle' /\ Outermost(stack') \in SelOps \cup {"probing"} /\ closest = <<>>) =>
          /\ limit' = DefaultClosest \/ DOMAIN servers # {}
          /\ IF DOMAIN servers = {}
               THEN /\ stack' = <<"get_servers", "get_closest_servers", Outermost(stack')>>
                    /\ disc'.include = None /\ disc'.exclude = None /\ disc'.k = 1
               ELSE /\ stack' = <<"probing">>
                    /\ Len(closest') = Min(DefaultClosest, NumRecords(servers))
     /\ (Idle /\ ~Idle' /\ Outermost(stack') = "get_closest_servers") =>
          /\ DOMAIN servers = {}
          /\ stack' = <<"get_servers", "get_closest_servers">>
          /\ disc'.include = None /\ disc'.exclude = None /\ disc'.k = 1
     /\ (Idle /\ Idle' /\ ret'.op = "get_closest_servers") => DOMAIN servers # {}
     /\ (stack # <<>> /\ Head(stack) = "get_closest_servers") =>
          /\ ret.op = "get_servers" /\ stack' = Tail(stack)
          /\ ret'.op = "get_closest_servers"
          /\ ret'.ok => Len(closest') = Min(limit, NumRecords(servers))
     /\ (stack # <<>> /\ Head(stack) \in SelOps) =>
          /\ ret.op = "get_closest_servers" /\ stack = <<Head(stack)>>
          /\ stack' \in {<<>>, <<"probing">>}
          /\ closest' = closest
     /\ (stack' = <<"probing">> /\ stack # <<"probing">>) =>
          /\ sel'.cands = closest'
          /\ requests' = Len(disc'.contacted)
          /\ \A i \in DOMAIN closest' : closest'[i].id \in DOMAIN servers']_vars

C16_Witness ==
  /\ stack = <<"probing">> /\ config.some
  /\ disc.contacted # <<>> /\ requests > Len(disc.contacted)
  /\ limit = DefaultClosest
  /\ closest # <<>> /\ sel.cands = closest
  /\ ~best.some

\* the server record x is held by the catalog m
InCatalog(m, x) == x.id \in DOMAIN m /\ \E j \in DOMAIN m[x.id] : m[x.id][j] = x

\* C18: the servers a selection call without explicit candidates probes are
\* all present in the current catalog.
C18_ProbedCandidatesInCatalog ==
  stack = <<"probing">> => \A i \in DOMAIN sel.cands : InCatalog(servers, sel.cands[i])

\* C19: a measurement is boxed by its time budget and not by its work list:
\* it does not return before the budget has elapsed, a pool still has work
\* to hand out or in flight while the budget runs, and no worker thread
\* leaves its loop before the stop flag is set.
C19_TimeBoxedNotListBoxed ==
  /\ MeasReturned => meas.clock >= meas.length
  /\ (IsPool /\ meas.clock < meas.length) => (meas.todo # <<>> \/ meas.inflight # <<>>)
  /\ (IsThreads /\ ~meas.stop) => \A i \in DOMAIN meas.w : meas.w[i].pc # "done"

\* C20: an upload worker thread never indexes the work list outside its
\* bounds, and so none has died while the stop flag is not yet set.
C20_UploadIndexInBounds ==
  (stack = <<"measuring">> /\ meas.kind = "upload") =>
    \A i \in DOMAIN meas.w :
      /\ meas.w[i].pc # "panicked"
      /\ meas.w[i].pc = "request" => meas.w[i].idx < Len(meas.work)

\* C21: in an upload with T worker threads, worker i posts only the payloads
\* at indices congruent to i modulo T, before and after it wraps around, and
\* no index is used by two workers.
C21_UploadStridesDisjoint ==
  (meas.kind = "upload" /\ "w" \in DOMAIN meas) =>
    /\ \A i \in DOMAIN meas.w : \A k \in meas.w[i].used : k % meas.threads = i
    /\ \A i, j \in DOMAIN meas.w : i # j => meas.w[i].used \cap meas.w[j].used = {}

\* two workers have posted, one of them again after wrapping around
C21_Witness ==
  /\ meas.kind = "upload" /\ "w" \in DOMAIN meas
  /\ \E i, j \in DOMAIN meas.w :
       /\ i # j
       /\ meas.w[i].reqs = 2 /\ meas.w[i].used = {i}
       /\ meas.w[j].used # {}

\* C22: when a selection, download or upload call has returned, every worker
\* it started has terminated and none of its requests is in flight: every
\* candidate has its probes answered, every worker thread has ended, and the
\* pool holds no item taken or still to take.
C22_StagesNeverOverlap ==
  Idle =>
    /\ sel.kind # "none" => AllProbed
    /\ "w" \in DOMAIN meas => \A i \in DOMAIN meas.w : meas.w[i].pc \in {"done", "panicked"}
    /\ "inflight" \in DOMAIN meas => (meas.inflight = <<>> /\ meas.todo = <<>>)

\* a measurement of several workers has returned, after the selection of the
\* server it ran against had returned
C22_Witness ==
  /\ Idle /\ ret.op = "upload" /\ ret.ok
  /\ best.some /\ best.v \notin {b.v : b \in MeasBests \ {None}}
  /\ meas.threads = 2 /\ \A i \in DOMAIN meas.w : meas.w[i].reqs >= 1

\* C23: when a selection call has returned, every candidate has received
\* exactly 3 probes, whatever the probes of the other candidates did, and
\* every candidate with at least one working probe is in the ranking the
\* outcome was computed over.
C23_ProbingNeverAborted ==
  SelReturned =>
    /\ \A i \in DOMAIN sel.cands : Len(sel.obs[i]) = NumProbes
    /\ \A i \in DOMAIN sel.cands : ~AllFailed(i) => i \in RankedIdx

\* C29: after get_best_server has returned, a candidate is left out of the
\* ranking only when none of its probes succeeded; one with a successful
\* probe is ranked whatever round-trip times were measured.
C29_RankedIffSomeProbeSucceeded ==
  (SelReturned /\ sel.kind = "A") =>
    \A i \in DOMAIN sel.cands : i \notin RankedIdx => AllFailed(i)

\* C24: a download measurement changes the configured upload thread count
\* only when the speed it returns exceeds 100,000 bits/second, and never to a
\* lower count than the one configured before.
C24_UploadThreadsOnlyRaised ==
  [][(config.some /\ config'.some /\ config'.v.threads.upload # config.v.threads.upload) =>
       /\ ret'.op = "test_download" /\ ret'.ok
       /\ ret'.v > SpeedThreshold
       /\ config'.v.threads.upload >= config.v.threads.upload]_vars

\* a step in which get_servers reads one more endpoint
EndpointRead == disc'.contacted # disc.contacted /\ disc'.contacted # <<>>

\* C25: discovery contacts the endpoints in the fixed order 1, 2, ..., and
\* contacts a further endpoint only while the catalog is still empty: once an
\* endpoint has left records in the catalog no later endpoint is contacted.
C25_FixedOrderEarlyExit ==
  [][EndpointRead =>
       /\ disc'.contacted = [i \in 1..(Len(disc.contacted) + 1) |-> i]
       /\ DOMAIN servers = {}]_vars

\* the answer was a document read to its end
AnswerOk(ans) == ans.kind = "doc" /\ ~ans.xml_error

\* no server record is held twice by the catalog m
NoRecordTwice(m) ==
  \A id \in DOMAIN m : \A i, j \in DOMAIN m[id] : i # j => m[id][i] # m[id][j]

\* C28: an endpoint whose fetch or parse fails adds no record to the catalog,
\* so the catalog get_servers returns comes from one endpoint and holds no
\* record twice.
C28_CatalogFromOneEndpoint ==
  [][EndpointRead =>
       /\ ~AnswerOk(disc'.answer) => servers' = servers
       /\ NoRecordTwice(servers')]_vars

\* C27: generate_upload_data_static terminates for every requested length:
\* its fill loop makes progress on every iteration it runs.
C27_GeneratorTerminates ==
  gen.kind = "static" => gen.out.outcome # "diverges"

\* C26: build_url maps "://R" to the scheme (https for a secure client, http
\* otherwise), the URL itself, the delimiter ("&" when R holds a "?", else
\* "?"), "x=" and the token, in this order and nothing else; any other URL is
\* returned unchanged.
C26_BuildUrlShape ==
  gen.kind = "build_url" =>
    LET u == gen.url
        o == gen.out
        scheme == IF gen.secure THEN Https ELSE Http
        n == Len(scheme) + Len(u)
    IN IF Len(u) >= 3 /\ u[1] = ":" /\ u[2] = "/" /\ u[3] = "/"
         THEN /\ Len(o) = n + 3 + Len(gen.token)
              /\ \A i \in DOMAIN scheme : o[i] = scheme[i]
              /\ \A i \in DOMAIN u : o[Len(scheme) + i] = u[i]
              /\ o[n + 1] = (IF \E i \in 4..Len(u) : u[i] = "?" THEN "&" ELSE "?")
              /\ o[n + 2] = "x" /\ o[n + 3] = "="
              /\ \A i \in DOMAIN gen.token : o[n + 3 + i] = gen.token[i]
         ELSE o = u

\* a secure client has rewritten a scheme-relative URL that holds a query
C26_Witness ==
  /\ gen.kind = "build_url" /\ gen.secure
  /\ gen.url = <<":", "/", "/", "a", "?">>
  /\ gen.out = Https \o gen.url \o <<"&", "x", "=">> \o gen.token

\* C30: in a download or upload measurement every worker starts at most one
\* request after the stop flag was set, however the store interleaves with
\* the workers' loads, and the speed returned is computed from a counter that
\* holds the bytes of every answered request, those answered after the flag
\* was set included.
C30_AtMostOneLateRequest ==
  "w" \in DOMAIN meas =>
    /\ \A i \in DOMAIN meas.w : meas.w[i].late <= 1
    /\ (Idle /\ ret.ok /\ ret.op = meas.kind) =>
         /\ meas.ackedlate <= meas.total
         /\ ret.v = Speed(SeqSum(meas.acked), meas.clock)

\* a measurement has returned in which a worker started a request after the
\* flag was set and bytes were counted after the flag was set
C30_Witness ==
  /\ Idle /\ ret.ok /\ ret.op = meas.kind /\ "w" \in DOMAIN meas
  /\ \E i \in DOMAIN meas.w : meas.w[i].late = 1
  /\ meas.ackedlate > 0

====
